---- MODULE Spec2Model ----
(***************************************************************************)
(* notetui: the note repository of notes.py - its day keys, its date       *)
(* arithmetic, its reads and writes - the task index of todolist.py, and   *)
(* the handlers of app.py that move the date in view, save the editor and  *)
(* receive TodoFileUpdated.  In app.py's own handlers every read and      *)
(* write succeeds.                                                         *)
(*                                                                         *)
(* Text is a sequence of one-character strings.  A file name is the text   *)
(* of its name, ".md" included.  A date is a record [y, m, d].             *)
(***************************************************************************)
EXTENDS Integers, Sequences, FiniteSets, TLC

VARIABLES
    locale,        \* LC_TIME of the process after the import of notes.py
    current_date,  \* the date in view
    file_path,     \* the name get_note_path gave for current_date
    origin,        \* history: the date the current run of day/week steps began at
    net,           \* history: the days stepped since, forward minus backward
    files,         \* the notes directory: file name -> bytes on disk
    todos,         \* TodoList.todos
    last,          \* history: the operation that ran last, its arguments and result
    editor,        \* the text of the app's TextArea
    previous_date, \* NoteTUI._previous_date, NoDate while no app is mounted
    messages       \* TodoFileUpdated messages posted and not yet handled

vars == <<locale, current_date, file_path, origin, net, files, todos, last,
          editor, previous_date, messages>>
navVars == <<current_date, file_path, origin, net>>
appVars == <<editor, previous_date, messages>>
dirVars == <<files, todos>>

----------------------------------------------------------------------------
(* Characters and str methods                                               *)

LF == "\n"
CR == "\r"
TAB == "\t"

\* The characters the model uses, in code point order (str comparison).
CodePoints ==
    <<TAB, LF, CR, " ", "#", ",", "-", ".",
      "0", "1", "2", "3", "4", "5", "6", "7", "8", "9",
      "A", "B", "C", "D", "E", "F", "G", "H", "I", "J", "K", "L", "M",
      "N", "O", "P", "Q", "R", "S", "T", "U", "V", "W", "X", "Y", "Z",
      "a", "b", "c", "d", "e", "f", "g", "h", "i", "j", "k", "l", "m",
      "n", "o", "p", "q", "r", "s", "t", "u", "v", "w", "x", "y", "z",
      "~", "ø">>

Chars == {CodePoints[i] : i \in 1..Len(CodePoints)}
OrdOf == [c \in Chars |-> CHOOSE i \in 1..Len(CodePoints) : CodePoints[i] = c]
ord(c) == OrdOf[c]

Digits == <<"0", "1", "2", "3", "4", "5", "6", "7", "8", "9">>
UpperCase ==
    <<"A", "B", "C", "D", "E", "F", "G", "H", "I", "J", "K", "L", "M",
      "N", "O", "P", "Q", "R", "S", "T", "U", "V", "W", "X", "Y", "Z">>
LowerCase ==
    <<"a", "b", "c", "d", "e", "f", "g", "h", "i", "j", "k", "l", "m",
      "n", "o", "p", "q", "r", "s", "t", "u", "v", "w", "x", "y", "z">>

isdigit(c) == ord("0") <= ord(c) /\ ord(c) <= ord("9")
digit(c) == ord(c) - ord("0")
isspace(c) == c \in {" ", TAB, LF, CR}

\* str.lower
LowerOf ==
    [c \in Chars |->
        IF \E i \in 1..26 : UpperCase[i] = c
        THEN LowerCase[CHOOSE i \in 1..26 : UpperCase[i] = c]
        ELSE c]
lower_char(c) == LowerOf[c]
lower(s) == [i \in 1..Len(s) |-> lower_char(s[i])]

\* s[n:] with n counted from 0, as a Python slice
slice_from(s, n) == IF n >= Len(s) THEN <<>> ELSE SubSeq(s, n + 1, Len(s))

startswith(s, p) == Len(p) <= Len(s) /\ SubSeq(s, 1, Len(p)) = p
endswith(s, p) == Len(p) <= Len(s) /\ SubSeq(s, Len(s) - Len(p) + 1, Len(s)) = p

RECURSIVE lstrip(_)
lstrip(s) == IF s # <<>> /\ isspace(Head(s)) THEN lstrip(Tail(s)) ELSE s

RECURSIVE rstrip(_)
rstrip(s) ==
    IF s # <<>> /\ isspace(s[Len(s)]) THEN rstrip(SubSeq(s, 1, Len(s) - 1)) ELSE s

strip(s) == rstrip(lstrip(s))

\* str.rstrip('#')
RECURSIVE rstrip_hash(_)
rstrip_hash(s) ==
    IF s # <<>> /\ s[Len(s)] = "#" THEN rstrip_hash(SubSeq(s, 1, Len(s) - 1)) ELSE s

\* str.split(sep) for a one-character separator: never empty, keeps empty fields
RECURSIVE find(_, _, _)
find(s, c, i) ==
    IF i > Len(s) THEN 0 ELSE IF s[i] = c THEN i ELSE find(s, c, i + 1)

RECURSIVE split(_, _)
split(s, sep) ==
    LET i == find(s, sep, 1)
    IN  IF i = 0 THEN <<s>>
        ELSE <<SubSeq(s, 1, i - 1)>> \o split(SubSeq(s, i + 1, Len(s)), sep)

\* sep.join(parts) for a one-character separator
RECURSIVE join(_, _)
join(parts, sep) ==
    IF parts = <<>> THEN <<>>
    ELSE IF Len(parts) = 1 THEN parts[1]
    ELSE parts[1] \o <<sep>> \o join(Tail(parts), sep)

\* a < b as Python compares str: by code point, a proper prefix first
RECURSIVE str_less(_, _)
str_less(a, b) ==
    IF b = <<>> THEN FALSE
    ELSE IF a = <<>> THEN TRUE
    ELSE IF Head(a) = Head(b) THEN str_less(Tail(a), Tail(b))
    ELSE ord(Head(a)) < ord(Head(b))

\* Text-mode decoding (open(..., 'r'), newline=None): universal newlines, so
\* "\r\n" and a lone "\r" are each read as "\n".
RECURSIVE read_text(_)
read_text(bytes) ==
    IF bytes = <<>> THEN <<>>
    ELSE IF Head(bytes) = CR
         THEN IF Len(bytes) >= 2 /\ bytes[2] = LF
              THEN <<LF>> \o read_text(SubSeq(bytes, 3, Len(bytes)))
              ELSE <<LF>> \o read_text(Tail(bytes))
    ELSE <<Head(bytes)>> \o read_text(Tail(bytes))

\* Text-mode encoding (open(..., 'w'), newline=None): "\n" is written as
\* os.linesep, which is "\n" on POSIX; every other character as it is.
linesep == <<LF>>
RECURSIVE write_text(_)
write_text(text) ==
    IF text = <<>> THEN <<>>
    ELSE (IF Head(text) = LF THEN linesep ELSE <<Head(text)>>) \o write_text(Tail(text))

----------------------------------------------------------------------------
(* datetime: the proleptic Gregorian calendar                               *)

DAYS_IN_MONTH == <<31, 28, 31, 30, 31, 30, 31, 31, 30, 31, 30, 31>>
DAYS_BEFORE_MONTH == <<0, 31, 59, 90, 120, 151, 181, 212, 243, 273, 304, 334>>

Date(y, m, d) == [y |-> y, m |-> m, d |-> d]

is_leap(year) == year % 4 = 0 /\ (year % 100 # 0 \/ year % 400 = 0)

days_before_year(year) ==
    LET y == year - 1 IN y * 365 + (y \div 4) - (y \div 100) + (y \div 400)

days_in_month(year, month) ==
    IF month = 2 /\ is_leap(year) THEN 29 ELSE DAYS_IN_MONTH[month]

\* Days before the month with the leap day left out.
days_before_month_no_leap(year, month) == DAYS_BEFORE_MONTH[month]

days_before_month(year, month) ==
    DAYS_BEFORE_MONTH[month] + (IF month > 2 /\ is_leap(year) THEN 1 ELSE 0)

\* date.toordinal(): 1 for 01-Jan-0001
ymd2ord(date) ==
    days_before_year(date.y) + days_before_month(date.y, date.m) + date.d

DI400Y == days_before_year(401)
DI100Y == days_before_year(101)
DI4Y == days_before_year(5)

\* date.fromordinal(n)
ord2ymd(ordinal) ==
    LET n0 == ordinal - 1
        n400 == n0 \div DI400Y
        n1r == n0 % DI400Y
        n100 == n1r \div DI100Y
        n2r == n1r % DI100Y
        n4 == n2r \div DI4Y
        n3r == n2r % DI4Y
        n1 == n3r \div 365
        n == n3r % 365
        year == n400 * 400 + 1 + n100 * 100 + n4 * 4 + n1
        leapyear == n1 = 3 /\ (n4 # 24 \/ n100 = 3)
        month0 == (n + 50) \div 32
        preceding0 == DAYS_BEFORE_MONTH[month0]
                          + (IF month0 > 2 /\ leapyear THEN 1 ELSE 0)
        month == IF preceding0 > n THEN month0 - 1 ELSE month0
        preceding ==
            IF preceding0 > n
            THEN preceding0 - (DAYS_IN_MONTH[month]
                                  + (IF month = 2 /\ leapyear THEN 1 ELSE 0))
            ELSE preceding0
    IN  IF n1 = 4 \/ n100 = 4
        THEN Date(year - 1, 12, 31)
        ELSE Date(year, month, n - preceding + 1)

\* date + timedelta(days=days)
add_days(date, days) == ord2ymd(ymd2ord(date) + days)

\* date.weekday(): Monday is 0
weekday(date) == (ymd2ord(date) + 6) % 7

----------------------------------------------------------------------------
(* LC_TIME: the names strftime writes and strptime reads                    *)

\* notes.py sets LC_TIME to Norwegian at import where the platform has that
\* locale, and otherwise leaves the C locale in place.
Locales == {"C", "nb_NO"}

AbMonC ==
    << <<"J", "a", "n">>,
       <<"F", "e", "b">>,
       <<"M", "a", "r">>,
       <<"A", "p", "r">>,
       <<"M", "a", "y">>,
       <<"J", "u", "n">>,
       <<"J", "u", "l">>,
       <<"A", "u", "g">>,
       <<"S", "e", "p">>,
       <<"O", "c", "t">>,
       <<"N", "o", "v">>,
       <<"D", "e", "c">> >>

AbMonNb ==
    << <<"j", "a", "n">>,
       <<"f", "e", "b">>,
       <<"m", "a", "r">>,
       <<"a", "p", "r">>,
       <<"m", "a", "i">>,
       <<"j", "u", "n">>,
       <<"j", "u", "l">>,
       <<"a", "u", "g">>,
       <<"s", "e", "p">>,
       <<"o", "k", "t">>,
       <<"n", "o", "v">>,
       <<"d", "e", "s">> >>

MonC ==
    << <<"J", "a", "n", "u", "a", "r", "y">>,
       <<"F", "e", "b", "r", "u", "a", "r", "y">>,
       <<"M", "a", "r", "c", "h">>,
       <<"A", "p", "r", "i", "l">>,
       <<"M", "a", "y">>,
       <<"J", "u", "n", "e">>,
       <<"J", "u", "l", "y">>,
       <<"A", "u", "g", "u", "s", "t">>,
       <<"S", "e", "p", "t", "e", "m", "b", "e", "r">>,
       <<"O", "c", "t", "o", "b", "e", "r">>,
       <<"N", "o", "v", "e", "m", "b", "e", "r">>,
       <<"D", "e", "c", "e", "m", "b", "e", "r">> >>

MonNb ==
    << <<"j", "a", "n", "u", "a", "r">>,
       <<"f", "e", "b", "r", "u", "a", "r">>,
       <<"m", "a", "r", "s">>,
       <<"a", "p", "r", "i", "l">>,
       <<"m", "a", "i">>,
       <<"j", "u", "n", "i">>,
       <<"j", "u", "l", "i">>,
       <<"a", "u", "g", "u", "s", "t">>,
       <<"s", "e", "p", "t", "e", "m", "b", "e", "r">>,
       <<"o", "k", "t", "o", "b", "e", "r">>,
       <<"n", "o", "v", "e", "m", "b", "e", "r">>,
       <<"d", "e", "s", "e", "m", "b", "e", "r">> >>

DayC ==
    << <<"M", "o", "n", "d", "a", "y">>,
       <<"T", "u", "e", "s", "d", "a", "y">>,
       <<"W", "e", "d", "n", "e", "s", "d", "a", "y">>,
       <<"T", "h", "u", "r", "s", "d", "a", "y">>,
       <<"F", "r", "i", "d", "a", "y">>,
       <<"S", "a", "t", "u", "r", "d", "a", "y">>,
       <<"S", "u", "n", "d", "a", "y">> >>

DayNb ==
    << <<"m", "a", "n", "d", "a", "g">>,
       <<"t", "i", "r", "s", "d", "a", "g">>,
       <<"o", "n", "s", "d", "a", "g">>,
       <<"t", "o", "r", "s", "d", "a", "g">>,
       <<"f", "r", "e", "d", "a", "g">>,
       <<"l", "ø", "r", "d", "a", "g">>,
       <<"s", "ø", "n", "d", "a", "g">> >>
abmon(loc) == IF loc = "nb_NO" THEN AbMonNb ELSE AbMonC
month_name(loc) == IF loc = "nb_NO" THEN MonNb ELSE MonC
day_name(loc) == IF loc = "nb_NO" THEN DayNb ELSE DayC

\* %d
pad2(n) == <<Digits[(n \div 10) + 1], Digits[(n % 10) + 1]>>

\* %Y
RECURSIVE decimal(_)
decimal(n) ==
    IF n < 10 THEN <<Digits[n + 1]>>
    ELSE decimal(n \div 10) \o <<Digits[(n % 10) + 1]>>

\* date.strftime("%d-%b-%Y") under LC_TIME loc
strftime_key(date, loc) ==
    pad2(date.d) \o <<"-">> \o abmon(loc)[date.m] \o <<"-">> \o decimal(date.y)

\* What strptime gives for text that is no date (it raises ValueError).
NoDate == Date(0, 0, 0)

\* %d of strptime: 3[0-1] | [1-2]\d | 0[1-9] | [1-9] | " "[1-9]
day_field(p) ==
    \/ Len(p) = 2 /\ p[1] = "3" /\ p[2] \in {"0", "1"}
    \/ Len(p) = 2 /\ p[1] \in {"1", "2"} /\ isdigit(p[2])
    \/ Len(p) = 2 /\ p[1] \in {"0", " "} /\ isdigit(p[2]) /\ p[2] # "0"
    \/ Len(p) = 1 /\ isdigit(p[1]) /\ p[1] # "0"

day_value(p) ==
    IF Len(p) = 1 THEN digit(p[1])
    ELSE IF p[1] = " " THEN digit(p[2])
    ELSE 10 * digit(p[1]) + digit(p[2])

\* LocaleTime.a_month: the abbreviated month names, lower-cased
a_month_C == [m \in 1..12 |-> lower(AbMonC[m])]
a_month_nb == [m \in 1..12 |-> lower(AbMonNb[m])]
a_month(loc) == IF loc = "nb_NO" THEN a_month_nb ELSE a_month_C

\* %b of strptime: an abbreviated month name of the locale, in any case
month_field(p, loc) == \E m \in 1..12 : a_month(loc)[m] = lower(p)
month_value(p, loc) == CHOOSE m \in 1..12 : a_month(loc)[m] = lower(p)

\* %Y of strptime: \d\d\d\d
year_field(p) == Len(p) = 4 /\ \A i \in 1..4 : isdigit(p[i])
year_value(p) ==
    1000 * digit(p[1]) + 100 * digit(p[2]) + 10 * digit(p[3]) + digit(p[4])

\* datetime.strptime(stem, "%d-%b-%Y") under LC_TIME loc
strptime_key(stem, loc) ==
    LET parts == split(stem, "-")
    IN  IF /\ Len(parts) = 3
           /\ day_field(parts[1])
           /\ month_field(parts[2], loc)
           /\ year_field(parts[3])
        THEN LET y == year_value(parts[3])
                 m == month_value(parts[2], loc)
                 d == day_value(parts[1])
             IN  IF y >= 1 /\ d <= days_in_month(y, m) THEN Date(y, m, d) ELSE NoDate
        ELSE NoDate

----------------------------------------------------------------------------
(* NoteManager                                                              *)

MD == <<".", "m", "d">>

\* Path.stem of a name ending in ".md"
stem(name) == SubSeq(name, 1, Len(name) - 3)

get_note_path(date) == strftime_key(date, locale) \o MD

create_default_content(date) ==
    <<"#", " ">> \o day_name(locale)[weekday(date) + 1] \o <<",", " ">>
        \o pad2(date.d) \o <<" ">> \o month_name(locale)[date.m] \o <<" ">>
        \o decimal(date.y) \o <<LF, LF>>

\* Path.exists() of the note's path
note_exists(date) == get_note_path(date) \in DOMAIN files

\* What get_note_content(date) returns
note_content(date) ==
    IF note_exists(date)
    THEN read_text(files[get_note_path(date)])
    ELSE create_default_content(date)

get_next_day(date) == add_days(date, 1)
get_previous_day(date) == add_days(date, -1)
get_next_week(date) == add_days(date, 7)
get_previous_week(date) == add_days(date, -7)

----------------------------------------------------------------------------
(* Bounds and inputs                                                        *)

\* The dates of the model: the whole years 2024 (leap) .. 2024 + YearSpan - 1.
YearSpan == 2
\* A run of day and week steps strays at most this many days from its origin.
MaxNet == 7

Years == 2024..(2024 + YearSpan - 1)
InWindow(date) == date.y \in Years
Dates ==
    UNION {{Date(y, m, d) : d \in 1..days_in_month(y, m)} : y \in Years, m \in 1..12}

\* Stems of files found in the directory.
NavStems ==
    { <<"2", "1", "-", "N", "o", "v", "-", "2", "0", "2", "5">>,
      <<"0", "1", "-", "D", "e", "c", "-", "2", "0", "2", "5">>,
      <<"1", "-", "D", "e", "c", "-", "2", "0", "2", "5">>,
      <<"0", "1", "-", "d", "e", "s", "-", "2", "0", "2", "5">>,
      <<"2", "9", "-", "F", "e", "b", "-", "2", "0", "2", "4">>,
      <<"2", "9", "-", "F", "e", "b", "-", "2", "0", "2", "5">>,
      <<"t", "o", "d", "o">> }

----------------------------------------------------------------------------
(* Date arithmetic: walks over the calendar by NoteManager's day and week   *)
(* shifts                                                                   *)

NoText == <<>>
EmptyDir == [name \in {} |-> NoText]
\* No app is mounted: no editor, no _previous_date, no message in flight.
NoApp == editor = NoText /\ previous_date = NoDate /\ messages = << >>

InitNav ==
    /\ locale \in Locales
    /\ current_date \in Dates
    /\ file_path = strftime_key(current_date, locale) \o MD
    /\ origin = current_date
    /\ net = 0
    /\ files = EmptyDir
    /\ todos = << >>
    /\ last = [op |-> "init", arg |-> NoDate]
    /\ NoApp

\* The date in view becomes date, the result of shifting it by days
Shift(date, days, op) ==
    /\ InWindow(date)
    /\ net + days \in (0 - MaxNet)..MaxNet
    /\ current_date' = date
    /\ file_path' = strftime_key(date, locale) \o MD
    /\ net' = net + days
    /\ last' = [op |-> op, arg |-> current_date]
    /\ UNCHANGED <<locale, appVars, origin, dirVars>>

next_day == Shift(get_next_day(current_date), 1, "get_next_day")
previous_day == Shift(get_previous_day(current_date), -1, "get_previous_day")
next_week == Shift(get_next_week(current_date), 7, "get_next_week")
previous_week == Shift(get_previous_week(current_date), -7, "get_previous_week")

NextNav ==
    \/ next_day
    \/ previous_day
    \/ next_week
    \/ previous_week

SpecNav == InitNav /\ [][NextNav]_vars

----------------------------------------------------------------------------
(* Day keys: the file name written for a date, and the date a file name's   *)
(* stem parses to                                                           *)

InitKey ==
    /\ locale \in Locales
    /\ current_date \in Dates
    /\ file_path = strftime_key(current_date, locale) \o MD
    /\ origin = current_date
    /\ net = 0
    /\ files = EmptyDir
    /\ todos = << >>
    /\ last = [op |-> "init", arg |-> NoText]
    /\ NoApp

\* The stem date_str of a file is parsed; the date it denotes comes in view
parse_day_key(date_str) ==
    LET parsed == strptime_key(date_str, locale)
    IN  IF parsed # NoDate
        THEN /\ InWindow(parsed)
             /\ current_date' = parsed
             /\ file_path' = strftime_key(parsed, locale) \o MD
             /\ origin' = parsed
             /\ net' = 0
             /\ last' = [op |-> "strptime", arg |-> date_str]
             /\ UNCHANGED <<locale, appVars, dirVars>>
        ELSE /\ last' = [op |-> "ValueError", arg |-> date_str]
             /\ UNCHANGED <<locale, appVars, navVars, dirVars>>

NextKey == \E s \in NavStems : parse_day_key(s)

SpecKey == InitKey /\ [][NextKey]_vars

----------------------------------------------------------------------------
(* Repository: NoteManager's read and write of a day's note                 *)

\* Days read: one in every month, and every day of the week among them.
ReadDays ==
    { Date(2024, 1, 1), Date(2024, 2, 29), Date(2024, 3, 31), Date(2024, 4, 2),
      Date(2024, 5, 15), Date(2024, 6, 15), Date(2025, 7, 4), Date(2025, 8, 9),
      Date(2025, 9, 7), Date(2025, 10, 31), Date(2025, 11, 21), Date(2025, 12, 31) }
\* Days written.
WriteDays == { Date(2024, 2, 29), Date(2025, 11, 21), Date(2025, 12, 31) }

TextNote == <<"#", " ", "T", LF, LF, "a", " ", "b", LF>>
TextCRLF == <<"a", CR, LF, "b">>
TextPadded == <<" ", "a", " ", LF>>
RepoTexts == {TextNote, TextCRLF, TextPadded, NoText}

\* A directory entry of the notes directory: something that is not a regular
\* file.  It is no text, so no read and no write of the model touches it.
Directory == <<"directory">>
\* The day whose path may be taken by a directory.
DirDay == Date(2025, 11, 20)
\* The notes directory at start: empty, or holding one directory named as
\* DirDay's note.
RepoDirs == {EmptyDir, (strftime_key(DirDay, locale) \o MD) :> Directory}

InitRepo ==
    /\ locale \in Locales
    /\ current_date = Date(2025, 11, 21)
    /\ file_path = strftime_key(current_date, locale) \o MD
    /\ origin = current_date
    /\ net = 0
    /\ files \in RepoDirs
    /\ todos = << >>
    /\ last = [op |-> "init", arg |-> NoDate, ret |-> NoText]
    /\ NoApp

\* note_path.write_text(content): the file is created or overwritten
save_note_content(date, content) ==
    /\ files' = (get_note_path(date) :> write_text(content)) @@ files
    /\ last' = [op |-> "save_note_content", arg |-> date, ret |-> content]
    /\ UNCHANGED <<locale, appVars, navVars, todos>>

\* A read that writes the default content of an absent note to disk.
get_note_content_persisting(date) ==
    /\ files' = IF note_exists(date) THEN files
                ELSE (get_note_path(date) :> write_text(create_default_content(date)))
                         @@ files
    /\ last' = [op |-> "get_note_content", arg |-> date, ret |-> note_content(date)]
    /\ UNCHANGED <<locale, appVars, navVars, todos>>

get_note_content(date) ==
    /\ last' = [op |-> "get_note_content", arg |-> date, ret |-> note_content(date)]
    /\ UNCHANGED <<locale, appVars, navVars, files, todos>>

\* A call of note_exists(date): Path.exists() of the day's path
note_exists_call(date) ==
    /\ last' = [op |-> "note_exists", arg |-> date, ret |-> note_exists(date)]
    /\ UNCHANGED <<locale, appVars, navVars, files, todos>>

NextRepo ==
    \/ \E date \in WriteDays, content \in RepoTexts : save_note_content(date, content)
    \/ \E date \in ReadDays : get_note_content(date)
    \/ \E date \in WriteDays \cup {DirDay} : note_exists_call(date)

SpecRepo == InitRepo /\ [][NextRepo]_vars

----------------------------------------------------------------------------
(* Task index: TodoList.scan_notes and TodoList.mark_todo_complete          *)

Nov21 == <<"2", "1", "-", "N", "o", "v", "-", "2", "0", "2", "5", ".", "m", "d">>
Dec01 == <<"0", "1", "-", "D", "e", "c", "-", "2", "0", "2", "5", ".", "m", "d">>
TodoMd == <<"t", "o", "d", "o", ".", "m", "d">>

\* "## a", "### b", "## ~~c~~"
TodoExample ==
    <<"#", "#", " ", "a", LF, "#", "#", "#", " ", "b", LF,
      "#", "#", " ", "~", "~", "c", "~", "~">>
\* "## a", "  ##a ##": one label on two lines
TodoTwice == <<"#", "#", " ", "a", LF, " ", " ", "#", "#", "a", " ", "#", "#">>
\* "x", "## b" with CRLF line ends
TodoCRLF == <<"x", CR, LF, "#", "#", " ", "b">>
\* "##", "## ~~", "## # #"
TodoEdge == <<"#", "#", LF, "#", "#", " ", "~", "~", LF, "#", "#", " ", "#", " ", "#">>

TodoTexts == {TodoExample, TodoTwice, TodoCRLF, TodoEdge}

\* The notes directories the task index starts on.
TodoDirs ==
    { d1 @@ d2 @@ d3 :
        d1 \in {EmptyDir} \cup {(Nov21 :> t) : t \in {TodoExample, TodoCRLF}},
        d2 \in {EmptyDir} \cup {(Dec01 :> t) : t \in {TodoTwice}},
        d3 \in {EmptyDir} \cup {(TodoMd :> t) : t \in {TodoCRLF}} }

\* The day whose note is saved while the task index is up.
TodoSaveDays == { Date(2025, 11, 21) }

InitTodo ==
    /\ locale = "C"
    /\ current_date = Date(2025, 11, 21)
    /\ file_path = strftime_key(current_date, locale) \o MD
    /\ origin = current_date
    /\ net = 0
    /\ files \in TodoDirs
    /\ todos = << >>
    /\ last = [op |-> "init", arg |-> NoDate, ret |-> NoText]
    /\ NoApp

\* notes_dir.glob("*.md")
glob_md(dir) == {name \in DOMAIN dir : endswith(name, MD)}

\* sorted(paths, reverse=True): paths of one directory, compared as str
RECURSIVE sorted_reverse(_)
sorted_reverse(names) ==
    IF names = {} THEN << >>
    ELSE LET top == CHOOSE n \in names : \A o \in names \ {n} : str_less(o, n)
         IN  <<top>> \o sorted_reverse(names \ {top})

\* A heading test that takes every line starting "##", deeper levels too.
is_todo_heading_any_level(line_stripped) == startswith(line_stripped, <<"#", "#">>)

\* line_stripped.startswith('##') and not line_stripped.startswith('###')
is_todo_heading(line_stripped) ==
    /\ startswith(line_stripped, <<"#", "#">>)
    /\ ~startswith(line_stripped, <<"#", "#", "#">>)

\* A label matcher that takes the completion marks off before it compares.
extract_todo_text_unmarked(line_stripped) ==
    LET todo_text == strip(rstrip_hash(strip(slice_from(line_stripped, 2))))
    IN  IF Len(todo_text) >= 4 /\ startswith(todo_text, <<"~", "~">>)
                               /\ endswith(todo_text, <<"~", "~">>)
        THEN SubSeq(todo_text, 3, Len(todo_text) - 2)
        ELSE todo_text

\* line_stripped[2:].strip().rstrip('#').strip()
extract_todo_text(line_stripped) ==
    strip(rstrip_hash(strip(slice_from(line_stripped, 2))))

\* todo_text.startswith('~~') and todo_text.endswith('~~')
is_struck(todo_text) ==
    startswith(todo_text, <<"~", "~">>) /\ endswith(todo_text, <<"~", "~">>)

TodoEntry(todo_text, name, line_number) ==
    [ todo_text |-> todo_text, date_str |-> stem(name),
      file_path |-> name, line_number |-> line_number ]

\* The entries of one file's lines from line_number on, in line order
RECURSIVE file_todos(_, _, _)
file_todos(name, lines, line_number) ==
    IF line_number >= Len(lines) THEN << >>
    ELSE LET line_stripped == strip(lines[line_number + 1])
             todo_text == extract_todo_text(line_stripped)
             here == IF /\ is_todo_heading(line_stripped)
                        /\ ~is_struck(todo_text)
                        /\ todo_text # NoText
                     THEN <<TodoEntry(todo_text, name, line_number)>>
                     ELSE << >>
         IN  here \o file_todos(name, lines, line_number + 1)

\* The entries of the files in turn; a file whose read raises adds none
\* (except Exception: pass)
RECURSIVE scan_files(_, _, _)
scan_files(dir, note_files, unreadable) ==
    IF note_files = << >> THEN << >>
    ELSE (IF Head(note_files) \in unreadable THEN << >>
          ELSE file_todos(Head(note_files),
                          split(read_text(dir[Head(note_files)]), LF), 0))
             \o scan_files(dir, Tail(note_files), unreadable)

\* The list scan_notes builds from the directory when the reads of the
\* files in unreadable raise
scan(dir, unreadable) == scan_files(dir, sorted_reverse(glob_md(dir)), unreadable)

\* The reads the filesystem may refuse during one operation: none, or those
\* of one file (permissions, a deletion under way).
Refusals(dir) == {{}} \cup {{name} : name \in DOMAIN dir}

\* What an operation of the task index did, for the record in last:
\* the directory before it, the files whose read or write the filesystem
\* refused, the files it wrote, the messages it posted, the exception that
\* reached its caller
Done(op, arg, unreadable, unwritable, wrote, posted, raised) ==
    [ op |-> op, arg |-> arg, ret |-> NoText, before |-> files,
      unreadable |-> unreadable, unwritable |-> unwritable,
      wrote |-> wrote, posted |-> posted, raised |-> raised ]

\* A scan that writes every file back as the text it read.
scan_notes_rewriting ==
    \E unreadable \in Refusals(files) :
        /\ todos' = scan(files, unreadable)
        /\ files' = [name \in DOMAIN files |-> write_text(read_text(files[name]))]
        /\ last' = Done("scan_notes", NoDate, unreadable, {}, {}, << >>, "none")
        /\ UNCHANGED <<locale, appVars, navVars>>

scan_notes ==
    \E unreadable \in Refusals(files) :
        /\ todos' = scan(files, unreadable)
        /\ last' = Done("scan_notes", NoDate, unreadable, {}, {}, << >>, "none")
        /\ UNCHANGED <<locale, appVars, navVars, files>>

\* The search loop without its break: the last matching line, 0 for none.
target_line_no_break(lines, todo_text, idx) ==
    LET hits == {k \in idx..Len(lines) :
                    /\ is_todo_heading(strip(lines[k]))
                    /\ extract_todo_text(strip(lines[k])) = todo_text}
    IN  IF hits = {} THEN 0 ELSE CHOOSE k \in hits : \A j \in hits : j <= k

\* The index of the first line whose todo text is todo_text, 0 for none
RECURSIVE target_line(_, _, _)
target_line(lines, todo_text, idx) ==
    IF idx > Len(lines) THEN 0
    ELSE LET line_stripped == strip(lines[idx])
         IN  IF /\ is_todo_heading(line_stripped)
                /\ extract_todo_text(line_stripped) = todo_text
             THEN idx
             ELSE target_line(lines, todo_text, idx + 1)

\* f"{indent}## ~~{todo_item.todo_text}~~"
struck_line(line, todo_text) ==
    SubSeq(line, 1, Len(line) - Len(lstrip(line)))
        \o <<"#", "#", " ", "~", "~">> \o todo_text \o <<"~", "~">>

\* target_line_idx is not None
has_target(bytes, todo_text) == target_line(split(read_text(bytes), LF), todo_text, 1) # 0

\* The bytes of the file after mark_todo_complete, the file's own when no
\* line matches
completed_file(bytes, todo_text) ==
    LET lines == split(read_text(bytes), LF)
        idx == target_line(lines, todo_text, 1)
    IN  IF idx = 0 THEN bytes
        ELSE write_text(join([lines EXCEPT ![idx] = struck_line(lines[idx], todo_text)], LF))

\* self.post_message(self.TodoFileUpdated(file_path)): the message is queued
\* for the app that holds the list; with no app mounted nothing receives it
post_message(posted) ==
    messages' = IF previous_date = NoDate THEN messages ELSE messages \o posted

\* A completion that posts TodoFileUpdated whether or not a line matched.
mark_todo_complete_always_posting(todo_item) ==
    \E unreadable \in Refusals(files) :
    \E unwritable \in (IF unreadable = {} THEN SUBSET {todo_item.file_path} ELSE {{}}) :
        /\ todo_item.file_path \in DOMAIN files \ unreadable
        /\ unwritable = {}
        /\ files' = [files EXCEPT ![todo_item.file_path] =
                         completed_file(files[todo_item.file_path], todo_item.todo_text)]
        /\ todos' = scan(files', unreadable)
        /\ last' = Done("mark_todo_complete", todo_item, unreadable, unwritable,
                        IF has_target(files[todo_item.file_path], todo_item.todo_text)
                        THEN {todo_item.file_path} ELSE {},
                        <<todo_item.file_path>>, "none")
        /\ post_message(last'.posted)
        /\ UNCHANGED <<locale, editor, previous_date, navVars>>

\* The read of the file, the rewrite, the message and the rescan; an
\* exception of the read or of the write ends the method there and is
\* dropped (except Exception: pass)
mark_todo_complete(todo_item) ==
    \E unreadable \in Refusals(files) :
    \E unwritable \in (IF unreadable = {} THEN SUBSET {todo_item.file_path} ELSE {{}}) :
        LET path == todo_item.file_path
            found == has_target(files[path], todo_item.todo_text)
        IN  /\ path \in DOMAIN files
            /\ IF path \in unreadable \/ (found /\ path \in unwritable)
               THEN /\ UNCHANGED <<files, todos>>
                    /\ last' = Done("mark_todo_complete", todo_item, unreadable,
                                    unwritable, {}, << >>, "none")
               ELSE /\ files' = [files EXCEPT ![path] =
                                     completed_file(files[path], todo_item.todo_text)]
                    /\ todos' = scan(files', unreadable)
                    /\ last' = Done("mark_todo_complete", todo_item, unreadable,
                                    unwritable,
                                    IF found THEN {path} ELSE {},
                                    IF found THEN <<path>> ELSE << >>, "none")
            /\ post_message(last'.posted)
            /\ UNCHANGED <<locale, editor, previous_date, navVars>>

\* Ctrl+D on the focused todo item
action_finish_todo == \E i \in 1..Len(todos) : mark_todo_complete(todos[i])

\* The caller repeats its last call of mark_todo_complete, same item
complete_again == last.op = "mark_todo_complete" /\ mark_todo_complete(last.arg)

NextTodo ==
    \/ scan_notes
    \/ action_finish_todo
    \/ complete_again
    \/ \E date \in TodoSaveDays, content \in TodoTexts : save_note_content(date, content)

SpecTodo == InitTodo /\ [][NextTodo]_vars

----------------------------------------------------------------------------
(* Search: NoteManager.search_notes                                         *)

\* The length of the run of equal characters of a and b from offsets i and j
RECURSIVE run_length(_, _, _, _, _, _)
run_length(a, b, i, j, ahi, bhi) ==
    IF i < ahi /\ j < bhi /\ a[i + 1] = b[j + 1]
    THEN 1 + run_length(a, b, i + 1, j + 1, ahi, bhi)
    ELSE 0

\* SequenceMatcher.find_longest_match: the longest block a[i:i+size] equal to
\* b[j:j+size] within a[alo:ahi] and b[blo:bhi]; of the longest, the one that
\* starts earliest in a, and of those the one that starts earliest in b
find_longest_match(a, b, alo, ahi, blo, bhi) ==
    LET starts == (alo..(ahi - 1)) \X (blo..(bhi - 1))
        size(p) == run_length(a, b, p[1], p[2], ahi, bhi)
        best == CHOOSE p \in starts :
                    \A q \in starts :
                        \/ size(q) < size(p)
                        \/ /\ size(q) = size(p)
                           /\ \/ p[1] < q[1]
                              \/ p[1] = q[1] /\ p[2] <= q[2]
    IN  IF starts = {} THEN [i |-> alo, j |-> blo, size |-> 0]
        ELSE [i |-> best[1], j |-> best[2], size |-> size(best)]

\* The sum of the sizes of SequenceMatcher.get_matching_blocks: the longest
\* block, then the blocks to its left and to its right
RECURSIVE matches(_, _, _, _, _, _)
matches(a, b, alo, ahi, blo, bhi) ==
    LET m == find_longest_match(a, b, alo, ahi, blo, bhi)
    IN  IF m.size = 0 THEN 0
        ELSE m.size
               + (IF alo < m.i /\ blo < m.j
                  THEN matches(a, b, alo, m.i, blo, m.j) ELSE 0)
               + (IF m.i + m.size < ahi /\ m.j + m.size < bhi
                  THEN matches(a, b, m.i + m.size, ahi, m.j + m.size, bhi) ELSE 0)

\* A score is a fraction in lowest terms: the float of the code, exactly.
RECURSIVE gcd(_, _)
gcd(m, n) == IF n = 0 THEN m ELSE gcd(n, m % n)

Score(num, den) ==
    IF num = 0 THEN [num |-> 0, den |-> 1]
    ELSE [num |-> num \div gcd(num, den), den |-> den \div gcd(num, den)]

score_less(s, t) == s.num * t.den < t.num * s.den

\* SequenceMatcher(None, a, b).ratio(): 2.0 * matches / (len(a) + len(b))
ratio(a, b) ==
    IF Len(a) + Len(b) = 0 THEN Score(1, 1)
    ELSE Score(2 * matches(a, b, 0, Len(a), 0, Len(b)), Len(a) + Len(b))

\* query_lower in line_lower
contains(line_lower, query_lower) ==
    \E i \in 0..(Len(line_lower) - Len(query_lower)) :
        SubSeq(line_lower, i + 1, i + Len(query_lower)) = query_lower

\* A score that is the ratio for every line, a line holding the query too.
line_score_ratio_only(query_lower, line_stripped) ==
    ratio(query_lower, lower(line_stripped))

\* The score of one stripped line against the lower-cased, stripped query
line_score(query_lower, line_stripped) ==
    IF contains(lower(line_stripped), query_lower) THEN Score(1, 1)
    ELSE ratio(query_lower, lower(line_stripped))

SearchResult(date, name, line_number, line_content, score) ==
    [ date |-> date, filename |-> stem(name), line_number |-> line_number,
      line_content |-> line_content, score |-> score ]

\* The results of one file's lines from line_num on, in line order
RECURSIVE file_results(_, _, _, _, _, _)
file_results(date, name, lines, line_num, query_lower, min_score) ==
    IF line_num > Len(lines) THEN << >>
    ELSE LET line_stripped == strip(lines[line_num])
             score == line_score(query_lower, line_stripped)
             here == IF line_stripped # NoText /\ ~score_less(score, min_score)
                     THEN <<SearchResult(date, name, line_num, line_stripped, score)>>
                     ELSE << >>
         IN  here \o file_results(date, name, lines, line_num + 1, query_lower, min_score)

\* The files search_notes goes on to read: those whose stem strptime takes
parsed_files(note_files) ==
    {k \in 1..Len(note_files) : strptime_key(stem(note_files[k]), locale) # NoDate}

\* The results in the order the files are met; a file whose stem raises
\* ValueError or whose read raises OSError is passed over
RECURSIVE search_files(_, _, _, _, _)
search_files(dir, note_files, unreadable, query_lower, min_score) ==
    IF note_files = << >> THEN << >>
    ELSE LET name == Head(note_files)
             date == strptime_key(stem(name), locale)
         IN  (IF date = NoDate \/ name \in unreadable THEN << >>
              ELSE file_results(date, name, split(read_text(dir[name]), LF), 1,
                                query_lower, min_score))
                 \o search_files(dir, Tail(note_files), unreadable, query_lower, min_score)

\* r.date.timestamp(): the seconds from the epoch to the day's midnight
timestamp(date) == (ymd2ord(date) - ymd2ord(Date(1970, 1, 1))) * 24 * 60 * 60

\* A sort key that puts the older day first among equal scores.
key_less_oldest_first(r1, r2) ==
    \/ score_less(r2.score, r1.score)
    \/ r1.score = r2.score /\ timestamp(r1.date) < timestamp(r2.date)

\* key=lambda r: (-r.score, -r.date.timestamp())
key_less(r1, r2) ==
    \/ score_less(r2.score, r1.score)
    \/ r1.score = r2.score /\ timestamp(r2.date) < timestamp(r1.date)

\* list.sort is stable: r goes behind every result its key is not less than
RECURSIVE insort(_, _)
insort(sorted, r) ==
    IF sorted = << >> THEN <<r>>
    ELSE IF key_less(r, Head(sorted)) THEN <<r>> \o sorted
    ELSE <<Head(sorted)>> \o insort(Tail(sorted), r)

RECURSIVE sort_results(_)
sort_results(results) ==
    IF results = << >> THEN << >>
    ELSE insort(sort_results(SubSeq(results, 1, Len(results) - 1)),
                results[Len(results)])

\* An empty-query test that takes only the empty string.
is_empty_query_unstripped(query) == query = NoText

\* if not query or not query.strip()
is_empty_query(query) == query = NoText \/ strip(query) = NoText

\* The orders glob may yield the files of a directory in.
RECURSIVE Orders(_)
Orders(names) ==
    IF names = {} THEN {<< >>}
    ELSE UNION {{<<n>> \o rest : rest \in Orders(names \ {n})} : n \in names}

\* search_notes(query, min_score) when glob yields note_files and the reads
\* of the files in unreadable raise OSError
search_notes(query, min_score, note_files, unreadable) ==
    LET query_lower == strip(lower(query))
        results == IF is_empty_query(query) THEN << >>
                   ELSE sort_results(search_files(files, note_files, unreadable,
                                                  query_lower, min_score))
        read == IF is_empty_query(query) THEN {}
                ELSE {note_files[k] : k \in parsed_files(note_files)}
    IN  /\ last' = [ op |-> "search_notes",
                     arg |-> [query |-> query, min_score |-> min_score],
                     ret |-> results, note_files |-> note_files,
                     unreadable |-> unreadable, read |-> read, raised |-> "none" ]
        /\ UNCHANGED <<locale, appVars, navVars, files, todos>>

Dec1 == <<"1", "-", "D", "e", "c", "-", "2", "0", "2", "5", ".", "m", "d">>

\* "xABy", "ba"
TextExact == <<"x", "A", "B", "y", LF, "b", "a">>
\* "ba", "", "  a  ", "azzz"
TextFuzzy == <<"b", "a", LF, LF, " ", " ", "a", " ", " ", LF, "a", "z", "z", "z">>

\* The notes directories searched.
SearchDirs ==
    { (Nov21 :> TextExact) @@ (Dec01 :> TextFuzzy) @@ (Dec1 :> TextExact),
      (Nov21 :> TextFuzzy) @@ (TodoMd :> TextExact),
      (Dec01 :> TextExact) }

\* " Ab ", "" and "  "
Queries == { <<" ", "A", "b", " ">>, NoText, <<" ", " ">> }

\* min_score: the default 0.4, and 0.5
MinScores == { Score(2, 5), Score(1, 2) }

InitSearch ==
    /\ locale \in Locales
    /\ current_date = Date(2025, 11, 21)
    /\ file_path = strftime_key(current_date, locale) \o MD
    /\ origin = current_date
    /\ net = 0
    /\ files \in SearchDirs
    /\ todos = << >>
    /\ last = [op |-> "init", arg |-> NoDate, ret |-> NoText]
    /\ NoApp

NextSearch ==
    \E query \in Queries, min_score \in MinScores,
       note_files \in Orders(glob_md(files)), unreadable \in Refusals(files) :
        search_notes(query, min_score, note_files, unreadable)

SpecSearch == InitSearch /\ [][NextSearch]_vars


----------------------------------------------------------------------------
(* The notes directory under all four operations: scan, search, write,      *)
(* complete                                                                 *)

\* The notes directories the four operations start on.
DiskDirs ==
    { (Nov21 :> TodoCRLF) @@ (Dec01 :> TodoTwice),
      (Nov21 :> TodoExample) @@ (TodoMd :> TodoCRLF) }

InitDisk ==
    /\ locale = "C"
    /\ current_date = Date(2025, 11, 21)
    /\ file_path = strftime_key(current_date, locale) \o MD
    /\ origin = current_date
    /\ net = 0
    /\ files \in DiskDirs
    /\ todos = << >>
    /\ last = [op |-> "init", arg |-> NoDate, ret |-> NoText]
    /\ NoApp

NextDisk ==
    \/ scan_notes
    \/ action_finish_todo
    \/ \E date \in TodoSaveDays : save_note_content(date, TodoTwice)
    \/ \E query \in {<<"a">>}, min_score \in MinScores :
       \E note_files \in Orders(glob_md(files)), unreadable \in Refusals(files) :
           search_notes(query, min_score, note_files, unreadable)

SpecDisk == InitDisk /\ [][NextDisk]_vars

----------------------------------------------------------------------------
(* The app: the date in view, the editor, _previous_date and the            *)
(* TodoFileUpdated messages of the todo list                                *)

\* The most messages in flight at once.
MaxMessages == 1

Nov20 == <<"2", "0", "-", "N", "o", "v", "-", "2", "0", "2", "5", ".", "m", "d">>

\* datetime.now(): the day the app runs on
Today == Date(2025, 11, 21)
\* The days the app is taken to.
AppDays == { Date(2025, 11, 20), Today, Date(2025, 11, 28) }
\* What the user types into the editor: "## d"
AppTexts == { <<"#", "#", " ", "d">> }
\* The notes directories the app starts on.
AppDirs == { Nov21 :> TodoExample }

\* What get_note_content(date) returns on the directory dir
get_note_content_in(dir, date) ==
    IF get_note_path(date) \in DOMAIN dir
    THEN read_text(dir[get_note_path(date)])
    ELSE create_default_content(date)

\* The app after compose and on_mount
InitApp ==
    /\ locale = "C"
    /\ current_date = Today
    /\ file_path = get_note_path(current_date)
    /\ origin = current_date
    /\ net = 0
    /\ files \in AppDirs
    /\ todos = scan(files, {})
    /\ editor = get_note_content_in(files, current_date)
    /\ previous_date = current_date
    /\ messages = << >>
    /\ last = [op |-> "on_mount", arg |-> NoDate]

\* The user types: the TextArea holds a new text
edit(text) ==
    /\ editor' = text
    /\ last' = [op |-> "edit", arg |-> NoDate]
    /\ UNCHANGED <<locale, navVars, files, todos, previous_date, messages>>

\* A watcher that saves the editor to the file of the date it is given.
watch_current_date_saving_new(new_date, op, arg) ==
    /\ current_date' = new_date
    /\ files' = IF previous_date # NoDate
                THEN (get_note_path(new_date) :> write_text(editor)) @@ files
                ELSE files
    /\ todos' = IF previous_date # NoDate THEN scan(files', {}) ELSE todos
    /\ editor' = get_note_content_in(files', new_date)
    /\ file_path' = get_note_path(new_date)
    /\ previous_date' = new_date
    /\ last' = [op |-> op, arg |-> arg]
    /\ UNCHANGED <<locale, origin, net, messages>>

\* self.current_date = new_date with a value that differs from the one held,
\* and watch_current_date(new_date) run by the assignment: the save to
\* _previous_date's file, the rescan, the load of the new date, the info bar
watch_current_date(new_date, op, arg) ==
    /\ current_date' = new_date
    /\ files' = IF previous_date # NoDate
                THEN (get_note_path(previous_date) :> write_text(editor)) @@ files
                ELSE files
    /\ todos' = IF previous_date # NoDate THEN scan(files', {}) ELSE todos
    /\ editor' = get_note_content_in(files', new_date)
    /\ file_path' = get_note_path(new_date)
    /\ previous_date' = new_date
    /\ last' = [op |-> op, arg |-> arg]
    /\ UNCHANGED <<locale, origin, net, messages>>

\* self.current_date = new_date.  current_date is a datetime, time of day
\* included, and the watcher runs when the datetime assigned differs from the
\* one held: always for another day, and for the day in view when the times
\* of day differ.
set_current_date(new_date, op, arg) ==
    /\ new_date \in AppDays
    /\ \E differs \in (IF new_date = current_date THEN BOOLEAN ELSE {TRUE}) :
           IF differs
           THEN watch_current_date(new_date, op, arg)
           ELSE /\ last' = [op |-> op, arg |-> arg]
                /\ UNCHANGED <<locale, navVars, files, todos, appVars>>

action_next_day == set_current_date(get_next_day(current_date), "action_next_day", NoDate)
action_prev_day == set_current_date(get_previous_day(current_date), "action_prev_day", NoDate)
action_next_week == set_current_date(get_next_week(current_date), "action_next_week", NoDate)
action_prev_week == set_current_date(get_previous_week(current_date), "action_prev_week", NoDate)

\* datetime.now() is later than any datetime held: the watcher runs
action_today ==
    /\ Today \in AppDays
    /\ watch_current_date(Today, "action_today", NoDate)

on_calendar_date_selected(date) == set_current_date(date, "on_calendar_date_selected", date)

\* Enter on a todo item: strptime of its date_str, ValueError notified
on_todo_item_selected(date_str) ==
    LET selected_date == strptime_key(date_str, locale)
    IN  IF selected_date = NoDate
        THEN /\ last' = [op |-> "on_todo_item_selected", arg |-> date_str]
             /\ UNCHANGED <<locale, navVars, files, todos, appVars>>
        ELSE set_current_date(selected_date, "on_todo_item_selected", date_str)

\* Ctrl+S: _save_current_note
action_save ==
    /\ files' = (get_note_path(current_date) :> write_text(editor)) @@ files
    /\ previous_date' = current_date
    /\ todos' = scan(files', {})
    /\ last' = [op |-> "action_save", arg |-> NoDate]
    /\ UNCHANGED <<locale, navVars, editor, messages>>

\* A handler that reloads the editor whatever file the message names.
on_todo_list_todo_file_updated_any_file ==
    /\ messages # << >>
    /\ editor' = note_content(current_date)
    /\ messages' = Tail(messages)
    /\ last' = [op |-> "on_todo_list_todo_file_updated", arg |-> Head(messages)]
    /\ UNCHANGED <<locale, navVars, files, todos, previous_date>>

\* The oldest TodoFileUpdated in flight reaches the app
on_todo_list_todo_file_updated ==
    /\ messages # << >>
    /\ editor' = IF Head(messages) = get_note_path(current_date)
                 THEN note_content(current_date)
                 ELSE editor
    /\ messages' = Tail(messages)
    /\ last' = [op |-> "on_todo_list_todo_file_updated", arg |-> Head(messages)]
    /\ UNCHANGED <<locale, navVars, files, todos, previous_date>>

\* Ctrl+D on a todo item of the list, while the queue has room
finish_todo ==
    /\ Len(messages) < MaxMessages
    /\ action_finish_todo

NextApp ==
    \/ \E text \in AppTexts : edit(text)
    \/ action_next_day
    \/ action_prev_day
    \/ action_next_week
    \/ action_prev_week
    \/ action_today
    \/ \E date \in AppDays : on_calendar_date_selected(date)
    \/ \E i \in 1..Len(todos) : on_todo_item_selected(todos[i].date_str)
    \/ action_save
    \/ finish_todo
    \/ on_todo_list_todo_file_updated

SpecApp == InitApp /\ [][NextApp]_vars
----------------------------------------------------------------------------
(* Properties                                                               *)

\* C1: for every day d and every non-empty text t, embedded newline
\* characters included, save_note_content(d, t) followed by
\* get_note_content(d) returns exactly t, with no normalization or trimming.
C1_WriteThenRead ==
    [][(/\ last.op = "save_note_content"
        /\ last.ret # NoText
        /\ last'.op = "get_note_content"
        /\ last'.arg = last.arg)
          => last'.ret = last.ret]_vars

\* The day of the week by Zeller's congruence, Monday as 0.
ZellerWeekday(date) ==
    LET mm == IF date.m < 3 THEN date.m + 12 ELSE date.m
        yy == IF date.m < 3 THEN date.y - 1 ELSE date.y
        k == yy % 100
        j == yy \div 100
        h == (date.d + ((13 * (mm + 1)) \div 5) + k + (k \div 4) + (j \div 4) + 5 * j) % 7
    IN  (h + 5) % 7

\* "# <Weekday>, <DD Month YYYY>" and a blank line, in the names of loc
DefaultContent(date, loc) ==
    <<"#", " ">> \o day_name(loc)[ZellerWeekday(date) + 1] \o <<",", " ">>
        \o <<Digits[(date.d \div 10) + 1], Digits[(date.d % 10) + 1]>> \o <<" ">>
        \o month_name(loc)[date.m] \o <<" ">>
        \o <<Digits[(date.y \div 1000) + 1], Digits[((date.y \div 100) % 10) + 1],
             Digits[((date.y \div 10) % 10) + 1], Digits[(date.y % 10) + 1]>>
        \o <<LF, LF>>

C3_PathIsEnglishDayKey ==
    /\ Len(file_path) = 14
    /\ isdigit(file_path[1]) /\ isdigit(file_path[2])
    /\ 10 * digit(file_path[1]) + digit(file_path[2]) = current_date.d
    /\ file_path[3] = "-"
    /\ SubSeq(file_path, 4, 6) = AbMonC[current_date.m]
    /\ file_path[7] = "-"
    /\ \A i \in 8..11 : isdigit(file_path[i])
    /\ 1000 * digit(file_path[8]) + 100 * digit(file_path[9])
           + 10 * digit(file_path[10]) + digit(file_path[11]) = current_date.y
    /\ SubSeq(file_path, 12, 14) = MD

\* C4: formatting and parsing a day key are inverse and injective: the stem
\* written for a date parses back to that date (so two dates never share a
\* file name), and two distinct accepted stems never denote the same date:
\* a stem the parser accepts is the stem written for the date it denotes.
C4_DayKeyBijection ==
    /\ strptime_key(stem(file_path), locale) = current_date
    /\ last.op = "strptime" => last.arg = stem(file_path)

\* The day after date, by the calendar's rules alone.
CalendarSuccessor(date) ==
    LET feb == IF (date.y % 4 = 0 /\ date.y % 100 # 0) \/ date.y % 400 = 0
               THEN 29 ELSE 28
        len == IF date.m = 2 THEN feb
               ELSE IF date.m \in {4, 6, 9, 11} THEN 30 ELSE 31
    IN  IF date.d < len THEN Date(date.y, date.m, date.d + 1)
        ELSE IF date.m < 12 THEN Date(date.y, date.m + 1, 1)
        ELSE Date(date.y + 1, 1, 1)

\* C5: day shifting is invertible calendar arithmetic: shifting a date by n
\* days and then by -n days returns it, across month, year and leap-year
\* boundaries; get_next_day gives the calendar's next day and
\* get_previous_day undoes it, and a run of day and week steps that nets to
\* zero days ends on the date it began at.
C5_ShiftIsInvertible ==
    /\ net = 0 => current_date = origin
    /\ \A n \in (0 - MaxNet)..MaxNet :
           add_days(add_days(current_date, n), 0 - n) = current_date
    /\ get_next_day(current_date) = CalendarSuccessor(current_date)
    /\ last.op = "get_next_day" =>
           /\ current_date = CalendarSuccessor(last.arg)
           /\ get_previous_day(current_date) = last.arg
    /\ last.op = "get_previous_day" =>
           /\ CalendarSuccessor(current_date) = last.arg
           /\ get_next_day(current_date) = last.arg
    /\ last.op = "get_next_week" => get_previous_week(current_date) = last.arg
    /\ last.op = "get_previous_week" => get_next_week(current_date) = last.arg

\* C5's case: 29-Feb-2024 stepped to 01-Mar-2024 and back.
C5_Witness ==
    /\ origin = Date(2024, 2, 29)
    /\ net = 0
    /\ last.op = "get_previous_day"
    /\ last.arg = Date(2024, 3, 1)
    /\ current_date = Date(2024, 2, 29)

\* The lines of a file as the task index reads them.
LinesOf(dir, name) == split(read_text(dir[name]), LF)

\* s without its leading and trailing whitespace.
Trimmed(s) ==
    LET solid == {i \in 1..Len(s) : ~isspace(s[i])}
    IN  IF solid = {} THEN << >>
        ELSE SubSeq(s, CHOOSE i \in solid : \A j \in solid : i <= j,
                       CHOOSE i \in solid : \A j \in solid : j <= i)

\* A task line: trimmed, it starts with "##" and not with "###".
IsTaskLine(line) ==
    LET t == Trimmed(line)
    IN  /\ Len(t) >= 2
        /\ t[1] = "#" /\ t[2] = "#"
        /\ Len(t) >= 3 => t[3] # "#"

\* The label of a task line: the text after the "##", trimmed, without its
\* trailing "#" characters, trimmed again.
LabelOf(line) ==
    LET t == Trimmed(line)
        rest == Trimmed(SubSeq(t, 3, Len(t)))
        plain == {i \in 1..Len(rest) : rest[i] # "#"}
    IN  IF plain = {} THEN << >>
        ELSE Trimmed(SubSeq(rest, 1, CHOOSE i \in plain : \A j \in plain : j <= i))

IsComplete(label) ==
    /\ Len(label) >= 2
    /\ label[1] = "~" /\ label[2] = "~"
    /\ label[Len(label) - 1] = "~" /\ label[Len(label)] = "~"

IsActiveTask(line) ==
    IsTaskLine(line) /\ LabelOf(line) # << >> /\ ~IsComplete(LabelOf(line))

\* todos was rebuilt by the last operation, with no read or write refused.
Fresh ==
    /\ last.op \in {"scan_notes", "mark_todo_complete"}
    /\ last.unreadable = {} /\ last.unwritable = {}

\* C6: scan_notes emits a task for a line if and only if the trimmed line
\* starts with "##" but not "###", its label is non-empty, and the label does
\* not both start and end with "~~"; the task carries that label.  A file of
\* the lines "## a", "### b", "## ~~c~~" yields exactly one task, "a".
C6_ScanEmitsActiveTasks ==
    Fresh =>
        /\ \A name \in DOMAIN files :
               \A k \in 0..(Len(LinesOf(files, name)) - 1) :
                   IsActiveTask(LinesOf(files, name)[k + 1])
                       <=> \E i \in 1..Len(todos) :
                               /\ todos[i].file_path = name
                               /\ todos[i].line_number = k
        /\ \A i \in 1..Len(todos) :
               /\ todos[i].file_path \in DOMAIN files
               /\ todos[i].line_number < Len(LinesOf(files, todos[i].file_path))
               /\ todos[i].todo_text =
                      LabelOf(LinesOf(files, todos[i].file_path)[todos[i].line_number + 1])
        /\ \A i, j \in 1..Len(todos) :
               (/\ todos[i].file_path = todos[j].file_path
                /\ todos[i].line_number = todos[j].line_number) => i = j
        /\ \A name \in DOMAIN files :
               files[name] = TodoExample =>
                   \E i \in 1..Len(todos) :
                       /\ todos[i].file_path = name
                       /\ todos[i].todo_text = <<"a">>
                       /\ \A j \in 1..Len(todos) : todos[j].file_path = name => j = i

\* C6's case: a scan of a directory holding only the example file.
C6_Witness ==
    /\ last.op = "scan_notes"
    /\ DOMAIN files = {Nov21}
    /\ files[Nov21] = TodoExample
    /\ todos = << [ todo_text |-> <<"a">>, date_str |-> stem(Nov21),
                    file_path |-> Nov21, line_number |-> 0 ] >>

\* C7: scan_notes orders files by day key descending and, within a file, by
\* line order: every task of a later calendar date precedes every task of an
\* earlier date, for all pairs of dates, other months and years included.
C7_ScanNewestDayFirst ==
    Fresh =>
        \A i, j \in 1..Len(todos) :
            i < j =>
                LET di == strptime_key(todos[i].date_str, locale)
                    dj == strptime_key(todos[j].date_str, locale)
                IN  /\ (di # NoDate /\ dj # NoDate /\ di # dj)
                           => ymd2ord(di) > ymd2ord(dj)
                    /\ todos[i].file_path = todos[j].file_path
                           => todos[i].line_number < todos[j].line_number

\* C8: scan_notes skips every .md file whose name does not parse as a valid
\* canonical day key: no task of the list comes from such a file.
C8_ScanSkipsInvalidNames ==
    Fresh =>
        \A i \in 1..Len(todos) :
            LET date == strptime_key(todos[i].date_str, "C")
            IN  date # NoDate /\ strftime_key(date, "C") = todos[i].date_str

\* C9: when the file holds a task line whose label is the task's,
\* mark_todo_complete rewrites exactly one line - the first such line - to
\* "<leading whitespace>## ~~<label>~~" and leaves every other line of the
\* file byte for byte as it was, the lines as many and in the same order.
C9_CompleteRewritesOneLine ==
    [][(/\ last'.op = "mark_todo_complete"
        /\ last'.unreadable = {} /\ last'.unwritable = {}) =>
          LET item == last'.arg
              before == split(files[item.file_path], LF)
              after == split(files'[item.file_path], LF)
              hits == {k \in 1..Len(before) :
                          IsTaskLine(before[k]) /\ LabelOf(before[k]) = item.todo_text}
              first == CHOOSE k \in hits : \A j \in hits : k <= j
          IN  hits # {} =>
                  /\ Len(after) = Len(before)
                  /\ \A k \in 1..Len(before) :
                         IF k = first
                         THEN after[k] =
                                  SubSeq(before[k], 1,
                                         (CHOOSE n \in 1..Len(before[k]) :
                                              /\ ~isspace(before[k][n])
                                              /\ \A m \in 1..(n - 1) : isspace(before[k][m])) - 1)
                                      \o <<"#", "#", " ", "~", "~">> \o item.todo_text
                                      \o <<"~", "~">>
                         ELSE after[k] = before[k]]_vars

\* C10 as claimed: after mark_todo_complete on a task of the list, the
\* rebuilt list has no entry with the task's label for the task's file.
C10_NoEntryWithLabel ==
    [][(/\ last'.op = "mark_todo_complete"
        /\ last'.unreadable = {} /\ last'.unwritable = {}) =>
          \A i \in 1..Len(todos') :
              ~(/\ todos'[i].file_path = last'.arg.file_path
                /\ todos'[i].todo_text = last'.arg.todo_text)]_vars

\* C10, amended: after mark_todo_complete on a task of the list, the rebuilt
\* list no longer holds the line that was completed - the first active task
\* line of the task's file that carries the task's label - and holds every
\* later active line of that file with the same label; so it has no entry
\* with that label for that file exactly when one line at most carried it.
C10_CompletedLineNotListed ==
    [][(/\ last'.op = "mark_todo_complete"
        /\ last'.unreadable = {} /\ last'.unwritable = {}) =>
          LET item == last'.arg
              lines == LinesOf(files, item.file_path)
              active == {k \in 0..(Len(lines) - 1) :
                            /\ IsActiveTask(lines[k + 1])
                            /\ LabelOf(lines[k + 1]) = item.todo_text}
              listed == {todos'[i].line_number :
                            i \in {n \in 1..Len(todos') :
                                      /\ todos'[n].file_path = item.file_path
                                      /\ todos'[n].todo_text = item.todo_text}}
          IN  /\ listed = active \ {k \in active : \A j \in active : k <= j}
              /\ (listed = {}) <=> Cardinality(active) <= 1]_vars

\* C10's case: "a" of the example file completed, and no longer listed.
C10_Witness ==
    /\ last.op = "mark_todo_complete"
    /\ last.arg.todo_text = <<"a">>
    /\ last.arg.file_path = Nov21
    /\ files[Nov21] = <<"#", "#", " ", "~", "~", "a", "~", "~", LF,
                        "#", "#", "#", " ", "b", LF,
                        "#", "#", " ", "~", "~", "c", "~", "~">>
    /\ \A i \in 1..Len(todos) :
           ~(todos[i].file_path = Nov21 /\ todos[i].todo_text = <<"a">>)

\* The task lines of bytes, as read, that carry label: 0-based line numbers.
LinesWithLabel(bytes, label) ==
    LET lines == split(read_text(bytes), LF)
    IN  {k \in 0..(Len(lines) - 1) :
            IsTaskLine(lines[k + 1]) /\ LabelOf(lines[k + 1]) = label}

\* C11 as claimed: mark_todo_complete applied twice in succession with the
\* same task leaves the owning file as one application left it.
C11_CompleteTwiceIsOnce ==
    [][(/\ last.op = "mark_todo_complete"
        /\ last.unreadable = {} /\ last.unwritable = {}
        /\ last'.op = "mark_todo_complete"
        /\ last'.unreadable = {} /\ last'.unwritable = {}
        /\ last'.arg = last.arg)
          => files'[last.arg.file_path] = files[last.arg.file_path]]_vars

\* C11, amended: mark_todo_complete applied twice in succession with the
\* same task leaves the owning file as one application left it when, before
\* the first, at most one task line of the file carried the task's label;
\* when several did, the second application completes the next of them.
C11_CompleteTwiceSingleLabel ==
    [][(/\ last.op = "mark_todo_complete"
        /\ last.unreadable = {} /\ last.unwritable = {}
        /\ last'.op = "mark_todo_complete"
        /\ last'.unreadable = {} /\ last'.unwritable = {}
        /\ last'.arg = last.arg)
          => LET path == last.arg.file_path
                 label == last.arg.todo_text
                 first == LinesWithLabel(last.before[path], label)
                 second == LinesWithLabel(files[path], label)
             IN  /\ Cardinality(first) <= 1 =>
                        /\ files' = files
                        /\ last'.wrote = {}
                 /\ Cardinality(first) >= 2 =>
                        /\ second = first \ {k \in first : \A j \in first : k <= j}
                        /\ files'[path] # files[path]
                        /\ LinesWithLabel(files'[path], label)
                               = second \ {k \in second : \A j \in second : k <= j}]_vars

\* C11's case: "a" of the example file completed, then completed again.
C11_Witness ==
    /\ last.op = "mark_todo_complete"
    /\ last.arg.todo_text = <<"a">>
    /\ last.arg.file_path = Nov21
    /\ last.unreadable = {} /\ last.unwritable = {}
    /\ last.before = files
    /\ last.wrote = {}
    /\ files[Nov21] = <<"#", "#", " ", "~", "~", "a", "~", "~", LF,
                        "#", "#", "#", " ", "b", LF,
                        "#", "#", " ", "~", "~", "c", "~", "~">>

\* C12: mark_todo_complete, when the owning file as re-read holds no task
\* line whose label is the task's, is a silent no-op: the file is not
\* written, the directory is as it was, no TodoFileUpdated is posted and no
\* exception reaches the caller.
C12_MissingLabelIsNoOp ==
    [][(/\ last'.op = "mark_todo_complete"
        /\ last'.arg.file_path \notin last'.unreadable
        /\ LinesWithLabel(files[last'.arg.file_path], last'.arg.todo_text) = {})
          => /\ files' = files
             /\ last'.wrote = {}
             /\ last'.posted = << >>
             /\ last'.raised = "none"]_vars

\* C12's case: "a" listed from the example file, the file then saved without
\* it, and "a" completed.
C12_Witness ==
    /\ last.op = "mark_todo_complete"
    /\ last.arg.todo_text = <<"a">>
    /\ last.arg.file_path = Nov21
    /\ last.unreadable = {}
    /\ files[Nov21] = TodoCRLF
    /\ last.before = files
    /\ last.wrote = {} /\ last.posted = << >> /\ last.raised = "none"

\* C13: a failure of the re-read or of the rewrite in mark_todo_complete
\* reaches the caller as an error; it is not swallowed.
C13_CompleteSurfacesIOFailure ==
    (/\ last.op = "mark_todo_complete"
     /\ \/ last.arg.file_path \in last.unreadable
        \/ /\ last.arg.file_path \in last.unwritable
           /\ LinesWithLabel(last.before[last.arg.file_path], last.arg.todo_text) # {})
        => last.raised # "none"

\* C14: mark_todo_complete does not refresh the task index: TodoList.todos
\* is the same before and after it.
C14_CompleteKeepsTodos ==
    [][last'.op = "mark_todo_complete" => todos' = todos]_vars

\* line holds query, letter case set aside.
HoldsQuery(line, query) ==
    \E off \in 0..(Len(line) - Len(query)) :
        \A k \in 1..Len(query) : LowerOf[line[off + k]] = LowerOf[query[k]]

One == [num |-> 1, den |-> 1]

\* s is at least t, as fractions.
AtLeast(s, t) == s.num * t.den >= t.num * s.den

\* Day a is later than day b.
Later(a, b) ==
    \/ a.y > b.y
    \/ a.y = b.y /\ a.m > b.m
    \/ a.y = b.y /\ a.m = b.m /\ a.d > b.d

\* C15: in a result list of search_notes, every result whose line holds the
\* lower-cased trimmed query, letter case set aside, has score exactly 1.0
\* and comes before every result whose line does not hold it.
C15_ExactMatchesFirst ==
    last.op = "search_notes" =>
        LET query == Trimmed(last.arg.query)
            ret == last.ret
        IN  \A i \in 1..Len(ret) :
                HoldsQuery(ret[i].line_content, query) =>
                    /\ ret[i].score = One
                    /\ \A j \in 1..Len(ret) :
                           ~HoldsQuery(ret[j].line_content, query) =>
                               /\ i < j
                               /\ ret[j].score # One

\* C15's case: "xABy" of 21-Nov-2025 found for " Ab " ahead of a fuzzy match.
C15_Witness ==
    /\ last.op = "search_notes"
    /\ last.arg.query = <<" ", "A", "b", " ">>
    /\ Len(last.ret) >= 3
    /\ \E i \in 1..Len(last.ret) :
           /\ last.ret[i].line_content = <<"x", "A", "B", "y">>
           /\ last.ret[i].filename = stem(Nov21)
           /\ last.ret[i].score = One
    /\ last.ret[Len(last.ret)].line_content = <<"b", "a">>
    /\ last.ret[Len(last.ret)].score = [num |-> 1, den |-> 2]

\* C16: search_notes returns its results by score descending and, among
\* equal scores, by day descending: of two adjacent results the first has
\* the greater score, or the scores are equal and its day is not earlier.
C16_SortedByScoreThenDay ==
    last.op = "search_notes" =>
        \A i \in 1..(Len(last.ret) - 1) :
            LET r1 == last.ret[i]
                r2 == last.ret[i + 1]
            IN  \/ (AtLeast(r1.score, r2.score) /\ ~AtLeast(r2.score, r1.score))
                \/ (r1.score = r2.score /\ ~Later(r2.date, r1.date))

\* C16's case: two results of equal score from different days, newest first.
C16_Witness ==
    /\ last.op = "search_notes"
    /\ \E i \in 1..(Len(last.ret) - 1) :
           /\ last.ret[i].score = last.ret[i + 1].score
           /\ last.ret[i].date = Date(2025, 12, 1)
           /\ last.ret[i + 1].date = Date(2025, 11, 21)

\* C17: search_notes with an empty or whitespace-only query returns the
\* empty sequence, reads no file and raises nothing, whatever the directory
\* holds.
C17_EmptyQueryFindsNothing ==
    (/\ last.op = "search_notes"
     /\ \A k \in 1..Len(last.arg.query) : isspace(last.arg.query[k]))
        => /\ last.ret = << >>
           /\ last.read = {}
           /\ last.raised = "none"

\* C17's case: "  " searched in a directory that holds day files.
C17_Witness ==
    /\ last.op = "search_notes"
    /\ last.arg.query = <<" ", " ">>
    /\ Nov21 \in DOMAIN files
    /\ last.unreadable = {}
    /\ last.ret = << >>
    /\ last.read = {}

\* name is the canonical DD-Mon-YYYY.md name of a valid date.
IsDayFile(name) ==
    /\ endswith(name, MD)
    /\ strptime_key(stem(name), "C") # NoDate
    /\ strftime_key(strptime_key(stem(name), "C"), "C") = stem(name)

\* C18: every result of search_notes has a score of min_score at least, and
\* every non-blank trimmed line of a valid, readable day file whose score
\* against the query is min_score at least is among the results, with its
\* 1-based line number and its trimmed text.
C18_ThresholdKeepsAndDrops ==
    (/\ last.op = "search_notes"
     /\ \E k \in 1..Len(last.arg.query) : ~isspace(last.arg.query[k]))
        => LET query_lower == Trimmed(lower(last.arg.query))
               min_score == last.arg.min_score
               ret == last.ret
           IN  /\ \A i \in 1..Len(ret) : AtLeast(ret[i].score, min_score)
               /\ \A name \in DOMAIN files \ last.unreadable :
                      IsDayFile(name) =>
                          \A k \in 1..Len(LinesOf(files, name)) :
                              LET text == Trimmed(LinesOf(files, name)[k])
                              IN  (/\ text # << >>
                                   /\ AtLeast(line_score(query_lower, text), min_score))
                                      => \E i \in 1..Len(ret) :
                                             /\ ret[i].filename = stem(name)
                                             /\ ret[i].line_number = k
                                             /\ ret[i].line_content = text
                                             /\ ret[i].score = line_score(query_lower, text)

\* C19: scan_notes and search_notes are best-effort: when the read of one
\* file fails, that file adds no task and no result, the tasks and results
\* of every other file are returned in the specified order - tasks by day
\* descending and line ascending, results by score and day descending - and
\* no error reaches the caller.
C19_BestEffort ==
    /\ (last.op = "scan_notes" /\ last.unreadable # {}) =>
           /\ last.raised = "none"
           /\ \A i \in 1..Len(todos) : todos[i].file_path \notin last.unreadable
           /\ \A name \in DOMAIN files \ last.unreadable :
                  \A k \in 0..(Len(LinesOf(files, name)) - 1) :
                      IsActiveTask(LinesOf(files, name)[k + 1])
                          => \E i \in 1..Len(todos) :
                                 /\ todos[i].file_path = name
                                 /\ todos[i].line_number = k
           /\ \A i, j \in 1..Len(todos) :
                  i < j =>
                      LET di == strptime_key(todos[i].date_str, locale)
                          dj == strptime_key(todos[j].date_str, locale)
                      IN  /\ (di # NoDate /\ dj # NoDate /\ di # dj) => Later(di, dj)
                          /\ todos[i].file_path = todos[j].file_path
                                 => todos[i].line_number < todos[j].line_number
    /\ (last.op = "search_notes" /\ last.unreadable # {}) =>
           /\ last.raised = "none"
           /\ \A i \in 1..Len(last.ret) :
                  last.ret[i].filename \o MD \notin last.unreadable
           /\ \A i \in 1..(Len(last.ret) - 1) :
                  \/ ~AtLeast(last.ret[i + 1].score, last.ret[i].score)
                  \/ /\ last.ret[i].score = last.ret[i + 1].score
                     /\ ~Later(last.ret[i + 1].date, last.ret[i].date)

\* C20: search_notes passes over files with invalid names: every result
\* comes from a file named in the canonical fixed-width DD-Mon-YYYY.md form
\* of a valid date, the name get_note_path gives for the result's date.
C20_ResultsFromDayFiles ==
    last.op = "search_notes" =>
        \A i \in 1..Len(last.ret) :
            /\ IsDayFile(last.ret[i].filename \o MD)
            /\ strftime_key(last.ret[i].date, "C") = last.ret[i].filename


----------------------------------------------------------------------------
(* The note directory as a whole, and the app                               *)

\* The path names a regular file of the notes directory.
IsRegularFile(path) == path \in DOMAIN files /\ files[path] # Directory

\* C21: note_exists(day) is true exactly when the day's path names a regular
\* file - true after a write of the day, false before any write of it, and
\* false when the path is taken by a directory of that name.
C21_ExistsIffRegularFile ==
    last.op = "note_exists" =>
        last.ret = IsRegularFile(strftime_key(last.arg, locale) \o MD)

\* C22: scan_notes and search_notes are pure readers of the notes directory -
\* after a call of either, the set of files and the content of every file are
\* as before the call; only save_note_content and mark_todo_complete ever
\* change what is on disk, and mark_todo_complete changes no file but the
\* task's own.
C22_ScanAndSearchOnlyRead ==
    [][ /\ last'.op \in {"scan_notes", "search_notes"} => files' = files
        /\ files' # files => last'.op \in {"save_note_content", "mark_todo_complete"}
        /\ last'.op = "mark_todo_complete" =>
               /\ DOMAIN files' = DOMAIN files
               /\ \A name \in DOMAIN files \ {last'.arg.file_path} :
                      files'[name] = files[name] ]_vars
\* A search that found lines has run on a directory whose tasks were listed
\* and whose content a write or a completion has changed.
C22_Witness ==
    /\ last.op = "search_notes"
    /\ Len(last.ret) > 0
    /\ Len(todos) > 0
    /\ files \notin DiskDirs

\* The handlers that assign the date in view.
NavOps ==
    { "action_next_day", "action_prev_day", "action_next_week", "action_prev_week",
      "action_today", "on_calendar_date_selected", "on_todo_item_selected" }

\* C23: whenever the date in view changes (next or previous day or week,
\* today, a calendar selection, a jump from a todo), the editor text is saved
\* to the file of the date viewed before the change and to no other file, the
\* new date's file is neither created nor modified, the editor then holds
\* what a read of the new date gives, and _previous_date is the new date.
C23_NavigationSavesOldLoadsNew ==
    [][ (last'.op \in NavOps /\ current_date' # current_date) =>
            LET old_path == strftime_key(current_date, locale) \o MD
                new_path == strftime_key(current_date', locale) \o MD
            IN  /\ DOMAIN files' = DOMAIN files \cup {old_path}
                /\ files'[old_path] = editor
                /\ \A name \in DOMAIN files' \ {old_path} :
                       name \in DOMAIN files /\ files'[name] = files[name]
                /\ new_path # old_path
                /\ new_path \in DOMAIN files' <=> new_path \in DOMAIN files
                /\ editor' = IF new_path \in DOMAIN files
                             THEN files[new_path]
                             ELSE DefaultContent(current_date', locale)
                /\ previous_date' = current_date' ]_vars
\* Ctrl+Right from 20 November with "## d" typed: the text is in
\* 20-Nov-2025.md and the editor holds the note of 21 November.
C23_Witness ==
    /\ last.op = "action_next_day"
    /\ current_date = Today
    /\ previous_date = Today
    /\ Nov20 \in DOMAIN files
    /\ files[Nov20] = <<"#", "#", " ", "d">>
    /\ editor = TodoExample
    /\ files[Nov21] = TodoExample

\* C24: when the app handles the TodoFileUpdated of a completion made from
\* the todo list, the files and the date in view stay as they are; if the
\* message names the file of the day in view, the editor text becomes that
\* file's content on disk, and if it names another file the editor text is
\* unchanged.
C24_EditorFollowsCompletedFile ==
    [][ last'.op = "on_todo_list_todo_file_updated" =>
            /\ files' = files
            /\ current_date' = current_date
            /\ IF last'.arg = strftime_key(current_date, locale) \o MD
               THEN last'.arg \in DOMAIN files /\ editor' = files[last'.arg]
               ELSE editor' = editor ]_vars
\* "a" of the note in view was completed from the list with "## d" typed
\* and not saved; the message is handled and the editor holds the file.
C24_Witness ==
    /\ last.op = "on_todo_list_todo_file_updated"
    /\ last.arg = Nov21
    /\ current_date = Today
    /\ messages = << >>
    /\ files[Nov21] = <<"#", "#", " ", "~", "~", "a", "~", "~", LF,
                        "#", "#", "#", " ", "b", LF,
                        "#", "#", " ", "~", "~", "c", "~", "~">>
    /\ editor = files[Nov21]
====
